---- MODULE Spec2Model ----
(***************************************************************************)
(* Model of the password generator (src/main.py): the class              *)
(* PasswordGenerator (pool assembly, random draw, presence check and the   *)
(* rejection-sampling retry loop) and the event handlers of                *)
(* PasswordGeneratorApp (length controls, check boxes, text field,         *)
(* Generate and Copy).                                                     *)
(*                                                                         *)
(* A Python string is a sequence of one-character strings.  An optional    *)
(* string (custom_special) is a record [none, text]: none = TRUE is None.  *)
(*                                                                         *)
(* Spec and FairSpec call generate_password directly, with any             *)
(* configuration, and follow it step by step (pool, first draw, each       *)
(* iteration of the retry loop, return or raise).  ShellSpec is the        *)
(* window: every handler is one action, and _generate_password is two, the *)
(* part before the call of the generator and the part from the call on.    *)
(***************************************************************************)
EXTENDS Integers, Sequences, FiniteSets, TLC

(* ------------------------------ bounds -------------------------------- *)
\* Each character class is cut to its first ClassWidth characters (the
\* built-in special set to ClassWidth + 1, so that it stays a proper
\* superset of the text field's default).
ClassWidth == 1
\* Largest length argument of a direct call of generate_password.
MaxLen == 2
\* The slider and the spin box stop at Min(64, MaxUILength).
MaxUILength == 5
\* Number of user events after the window is constructed.
MaxEvents == 5

(* ------------------------------ helpers ------------------------------- *)
Take(s, n) == SubSeq(s, 1, IF n < Len(s) THEN n ELSE Len(s))

Min(a, b) == IF a < b THEN a ELSE b

Max(a, b) == IF a < b THEN b ELSE a

\* Python's `c in s` for a character c and a string s.
In(c, s) == \E i \in 1..Len(s) : s[i] = c

\* Python's any(c in s for c in password).
AnyIn(password, s) == \E i \in 1..Len(password) : In(password[i], s)

None == [none |-> TRUE, text |-> <<>>]

Str(t) == [none |-> FALSE, text |-> t]

\* Truth value of an optional string: None and "" are false.
Truthy(o) == ~o.none /\ Len(o.text) > 0

(* ------------------- PasswordGenerator.__init__ ----------------------- *)
ascii_lowercase ==
  << "a","b","c","d","e","f","g","h","i","j","k","l","m",
     "n","o","p","q","r","s","t","u","v","w","x","y","z" >>

ascii_uppercase ==
  << "A","B","C","D","E","F","G","H","I","J","K","L","M",
     "N","O","P","Q","R","S","T","U","V","W","X","Y","Z" >>

digits == << "0","1","2","3","4","5","6","7","8","9" >>

default_special ==
  << "!","@","#","$","%","^","&","*","(",")","-","_","=","+","[","{",
     "]","}","\\","|",";",":","'","\"",",","<",".",">","/","?" >>

lowercase_chars == Take(ascii_lowercase, ClassWidth)

uppercase_chars == Take(ascii_uppercase, ClassWidth)

digit_chars == Take(digits, ClassWidth)

special_chars == Take(default_special, ClassWidth + 1)

(* --------------------------- state ------------------------------------ *)
VARIABLES
  pc,                \* position in generate_password:
                     \*   "idle" | "build" | "draw" | "while" | "returned" | "raised"
  args,              \* the arguments of the running call
  chars,             \* the local `chars` (the character pool)
  password,          \* the local `password`
  has_requirements,  \* the local `has_requirements`
  app,               \* "direct": generate_password is called directly;
                     \* "constructing" | "running": PasswordGeneratorApp
  length_slider, length_spinbox,
  use_lowercase, use_uppercase, use_digits, use_special,
  special_chars_edit,
  password_display,
  clipboard,
  message,           \* the QMessageBox the last handler showed, or "none"
  events             \* user events handled so far

gen == << pc, args, chars, password, has_requirements >>

controls == << length_slider, length_spinbox, use_lowercase, use_uppercase,
               use_digits, use_special, special_chars_edit >>

shell == << app, controls, password_display, clipboard, message, events >>

vars == << gen, shell >>

(* ------------------ PasswordGenerator.generate_password --------------- *)
\* Variant of BuildChars: the digits are added whatever use_digits says.
BuildChars_AlwaysDigits(a) ==
  (IF a.use_lowercase THEN lowercase_chars ELSE <<>>)
  \o (IF a.use_uppercase THEN uppercase_chars ELSE <<>>)
  \o digit_chars
  \o (IF a.use_special
        THEN (IF Truthy(a.custom_special) THEN a.custom_special.text
                                           ELSE special_chars)
        ELSE <<>>)

\* Variant of BuildChars: the else branch of line 50 hangs on the wrong if,
\* so the built-in special set is added when no custom string is in use,
\* whatever use_special says.
BuildChars_UnguardedSpecial(a) ==
  (IF a.use_lowercase THEN lowercase_chars ELSE <<>>)
  \o (IF a.use_uppercase THEN uppercase_chars ELSE <<>>)
  \o (IF a.use_digits THEN digit_chars ELSE <<>>)
  \o (IF a.use_special /\ Truthy(a.custom_special) THEN a.custom_special.text
                                                   ELSE special_chars)

\* Variant of BuildChars: the custom string is ignored.
BuildChars_IgnoresCustom(a) ==
  (IF a.use_lowercase THEN lowercase_chars ELSE <<>>)
  \o (IF a.use_uppercase THEN uppercase_chars ELSE <<>>)
  \o (IF a.use_digits THEN digit_chars ELSE <<>>)
  \o (IF a.use_special THEN special_chars ELSE <<>>)

\* Lines 40-51: the pool is the concatenation of the selected classes.
BuildChars(a) ==
  (IF a.use_lowercase THEN lowercase_chars ELSE <<>>)
  \o (IF a.use_uppercase THEN uppercase_chars ELSE <<>>)
  \o (IF a.use_digits THEN digit_chars ELSE <<>>)
  \o (IF a.use_special
        THEN (IF Truthy(a.custom_special) THEN a.custom_special.text
                                           ELSE special_chars)
        ELSE <<>>)

\* Variant of Draws: range(length + 1).
Draws_OneMore(pool, length) == [1..(length + 1) -> {pool[i] : i \in 1..Len(pool)}]

\* ''.join(secrets.choice(chars) for _ in range(length)): every string of
\* `length` characters of the pool is a possible outcome.
Draws(pool, length) == [1..length -> {pool[i] : i \in 1..Len(pool)}]

\* Variant of password_meets_requirements: the digits are not checked.
password_meets_requirements_NoDigits(pw, a) ==
  IF a.use_lowercase /\ ~AnyIn(pw, lowercase_chars) THEN FALSE
  ELSE IF a.use_uppercase /\ ~AnyIn(pw, uppercase_chars) THEN FALSE
  ELSE IF a.use_special
            /\ ~AnyIn(pw, IF Truthy(a.custom_special)
                            THEN a.custom_special.text ELSE special_chars)
       THEN FALSE
  ELSE TRUE

\* Variant of password_meets_requirements: the upper-case letters are not
\* checked.
password_meets_requirements_NoUppercase(pw, a) ==
  IF a.use_lowercase /\ ~AnyIn(pw, lowercase_chars) THEN FALSE
  ELSE IF a.use_digits /\ ~AnyIn(pw, digit_chars) THEN FALSE
  ELSE IF a.use_special
            /\ ~AnyIn(pw, IF Truthy(a.custom_special)
                            THEN a.custom_special.text ELSE special_chars)
       THEN FALSE
  ELSE TRUE

\* Variant of password_meets_requirements: the special characters are
\* checked against the built-in set even when a custom string is in use.
password_meets_requirements_BuiltInOnly(pw, a) ==
  IF a.use_lowercase /\ ~AnyIn(pw, lowercase_chars) THEN FALSE
  ELSE IF a.use_uppercase /\ ~AnyIn(pw, uppercase_chars) THEN FALSE
  ELSE IF a.use_digits /\ ~AnyIn(pw, digit_chars) THEN FALSE
  ELSE IF a.use_special /\ ~AnyIn(pw, special_chars) THEN FALSE
  ELSE TRUE

\* Lines 76-93.
password_meets_requirements(pw, a) ==
  IF a.use_lowercase /\ ~AnyIn(pw, lowercase_chars) THEN FALSE
  ELSE IF a.use_uppercase /\ ~AnyIn(pw, uppercase_chars) THEN FALSE
  ELSE IF a.use_digits /\ ~AnyIn(pw, digit_chars) THEN FALSE
  ELSE IF a.use_special
            /\ ~AnyIn(pw, IF Truthy(a.custom_special)
                            THEN a.custom_special.text ELSE special_chars)
       THEN FALSE
  ELSE TRUE

NoArgs == [length |-> 0, use_lowercase |-> FALSE, use_uppercase |-> FALSE,
           use_digits |-> FALSE, use_special |-> FALSE, custom_special |-> None]

\* Entry of generate_password: the arguments are bound, nothing is computed.
Enter(a) ==
  /\ pc' = "build"
  /\ args' = a
  /\ chars' = <<>>
  /\ password' = <<>>
  /\ has_requirements' = FALSE

\* Lines 40-55: build the pool; an empty pool raises ValueError.
BuildPool ==
  /\ app = "direct"
  /\ pc = "build"
  /\ chars' = BuildChars(args)
  /\ pc' = IF Len(chars') = 0 THEN "raised" ELSE "draw"
  /\ UNCHANGED << args, password, has_requirements, shell >>

\* Lines 58-64: the first draw and its check.
FirstDraw ==
  /\ pc = "draw"
  /\ \E pw \in Draws(chars, args.length) :
       /\ password' = pw
       /\ has_requirements' = password_meets_requirements(pw, args)
  /\ pc' = "while"
  /\ UNCHANGED << args, chars, shell >>

\* Lines 67-72: one iteration of the retry loop.
Redraw ==
  /\ pc = "while"
  /\ ~has_requirements
  /\ \E pw \in Draws(chars, args.length) :
       /\ password' = pw
       /\ has_requirements' = password_meets_requirements(pw, args)
  /\ UNCHANGED << pc, args, chars, shell >>

\* Line 74.
Return ==
  /\ pc = "while"
  /\ has_requirements
  /\ pc' = "returned"
  /\ UNCHANGED << args, chars, password, has_requirements, shell >>

(* ---------------------- direct calls of the generator ------------------ *)
Lengths == 0..MaxLen

CustomSpecials == { None, Str(<<>>), Str(<< "!" >>), Str(<< "a", "~" >>) }

Configurations ==
  [length : Lengths, use_lowercase : BOOLEAN, use_uppercase : BOOLEAN,
   use_digits : BOOLEAN, use_special : BOOLEAN, custom_special : CustomSpecials]

\* A caller invokes generate_password(length, flags, custom_special); the
\* previous call, if any, has returned or raised.
Call ==
  /\ app = "direct"
  /\ pc \in {"idle", "returned", "raised"}
  /\ \E a \in Configurations : Enter(a)
  /\ UNCHANGED shell

(* ------------------- PasswordGeneratorApp: the controls ---------------- *)
LengthMinimum == 4

LengthMaximum == 64

LengthDefault == 16

UIMaximum == Min(LengthMaximum, MaxUILength)

\* The values the user tries to give the slider or the spin box.
LengthInputs == (LengthMinimum - 1)..(UIMaximum + 1)

\* QSlider.setValue / QSpinBox.setValue keep the value inside the range.
SliderClamp(v) == Max(LengthMinimum, Min(v, UIMaximum))

\* Variant of SpinClamp: the spin box's minimum is one more than the slider's.
SpinClamp_HigherMinimum(v) == Max(LengthMinimum + 1, Min(v, UIMaximum))

SpinClamp(v) == Max(LengthMinimum, Min(v, UIMaximum))

\* Lines 156-157: each widget's valueChanged is connected to the other's
\* setValue; setValue emits valueChanged only when the value changes.
\* Both take the pair <<slider, spinbox>> and give the pair after the
\* cascade of signals has ended.
RECURSIVE SliderSetValue(_, _, _), SpinSetValue(_, _, _)
SliderSetValue(sl, sp, v) ==
  LET n == SliderClamp(v)
  IN  IF n = sl THEN << sl, sp >> ELSE SpinSetValue(n, sp, n)

SpinSetValue(sl, sp, v) ==
  LET n == SpinClamp(v)
  IN  IF n = sp THEN << sl, sp >> ELSE SliderSetValue(sl, n, n)

\* Line 200: the text field's initial content.
default_text ==
  Take(<< "!","@","#","$","%","^","&","*","(",")","-","_","=","+" >>, ClassWidth)

\* What the user may type into the text field.
SpecialTexts == { <<>>, default_text, << "a", "~" >> }

Idle == app = "running" /\ pc = "idle" /\ events < MaxEvents

\* The user drags the slider to v (also past either end).
SliderMoved ==
  /\ Idle
  /\ \E v \in LengthInputs :
       LET r == SliderSetValue(length_slider, length_spinbox, v)
       IN  /\ length_slider' = r[1]
           /\ length_spinbox' = r[2]
  /\ message' = "none"
  /\ events' = events + 1
  /\ UNCHANGED << gen, app, use_lowercase, use_uppercase, use_digits, use_special,
                  special_chars_edit, password_display, clipboard >>

\* The user enters v in the spin box (also a value outside the range).
SpinboxEdited ==
  /\ Idle
  /\ \E v \in LengthInputs :
       LET r == SpinSetValue(length_slider, length_spinbox, v)
       IN  /\ length_slider' = r[1]
           /\ length_spinbox' = r[2]
  /\ message' = "none"
  /\ events' = events + 1
  /\ UNCHANGED << gen, app, use_lowercase, use_uppercase, use_digits, use_special,
                  special_chars_edit, password_display, clipboard >>

\* The user clicks one of the four check boxes.
CheckBoxToggled ==
  /\ Idle
  /\ \E box \in {"lowercase", "uppercase", "digits", "special"} :
       /\ use_lowercase' = IF box = "lowercase" THEN ~use_lowercase ELSE use_lowercase
       /\ use_uppercase' = IF box = "uppercase" THEN ~use_uppercase ELSE use_uppercase
       /\ use_digits' = IF box = "digits" THEN ~use_digits ELSE use_digits
       /\ use_special' = IF box = "special" THEN ~use_special ELSE use_special
  /\ message' = "none"
  /\ events' = events + 1
  /\ UNCHANGED << gen, app, length_slider, length_spinbox, special_chars_edit,
                  password_display, clipboard >>

\* The user replaces the content of the custom special-character field.
SpecialCharsEdited ==
  /\ Idle
  /\ \E t \in SpecialTexts : special_chars_edit' = t
  /\ message' = "none"
  /\ events' = events + 1
  /\ UNCHANGED << gen, app, length_slider, length_spinbox, use_lowercase,
                  use_uppercase, use_digits, use_special, password_display, clipboard >>

(* --------------- PasswordGeneratorApp._generate_password -------------- *)
\* Lines 239-246: the arguments the handler passes to the generator.
ControlArgs ==
  [length |-> length_spinbox,
   use_lowercase |-> use_lowercase, use_uppercase |-> use_uppercase,
   use_digits |-> use_digits, use_special |-> use_special,
   custom_special |-> IF use_special THEN Str(special_chars_edit) ELSE None]

\* Variant of generate_password_begin: the display is cleared before the
\* boxes are looked at.
generate_password_begin_ClearsDisplay ==
  IF ~(use_lowercase \/ use_uppercase \/ use_digits \/ use_special)
    THEN /\ message' = "warning"
         /\ password_display' = <<>>
         /\ UNCHANGED gen
    ELSE /\ Enter(ControlArgs)
         /\ message' = "none"
         /\ UNCHANGED password_display

\* Lines 225-246: warn and return when no box is checked, else call the
\* generator.
generate_password_begin ==
  IF ~(use_lowercase \/ use_uppercase \/ use_digits \/ use_special)
    THEN /\ message' = "warning"
         /\ UNCHANGED << gen, password_display >>
    ELSE /\ Enter(ControlArgs)
         /\ message' = "none"
         /\ UNCHANGED password_display

\* Line 121: the constructor generates a first password.
InitialGenerate ==
  /\ app = "constructing"
  /\ pc = "idle"
  /\ generate_password_begin
  /\ UNCHANGED << app, controls, clipboard, events >>

\* Line 212: the Generate button.
GenerateClicked ==
  /\ Idle
  /\ generate_password_begin
  /\ events' = events + 1
  /\ UNCHANGED << app, controls, clipboard >>

\* The window never looks inside a password (setText, text() and the
\* clipboard take it whole) and the presence check does not depend on the
\* order of the characters, so the handler's outcomes are explored up to a
\* permutation of the positions: the draws whose characters come in pool
\* order.  OrderedDraws(pool, n, 1) is that subset of Draws(pool, n).
RECURSIVE OrderedDraws(_, _, _)
OrderedDraws(pool, n, lo) ==
  IF n <= 0 THEN { <<>> }
  ELSE UNION { { << pool[i] >> \o t : t \in OrderedDraws(pool, n - 1, i) } :
               i \in { j \in lo..Len(pool) : \A k \in 1..(j - 1) : pool[k] # pool[j] } }

\* What generate_password(a) can return: the draws over the pool that pass
\* the presence check (the loop of lines 67-72 ends on the first of them).
Outcomes(a) ==
  { pw \in OrderedDraws(BuildChars(a), a.length, 1) :
      password_meets_requirements(pw, a) }

\* Lines 239-251: generate_password runs to its end inside the handler.  It
\* raises on an empty pool (an error dialog; the display is not written) or
\* returns a draw that passes the check (the display takes it).  With no
\* passing draw the call never returns and the handler stays here.
generate_password_end ==
  /\ app # "direct"
  /\ pc = "build"
  /\ IF Len(BuildChars(args)) = 0
       THEN message' = "critical" /\ UNCHANGED password_display
       ELSE /\ \E pw \in Outcomes(args) : password_display' = pw
            /\ message' = "none"
  /\ pc' = "idle"
  /\ args' = NoArgs
  /\ app' = "running"
  /\ UNCHANGED << chars, password, has_requirements, controls, clipboard, events >>

(* ----------------- PasswordGeneratorApp._copy_password ---------------- *)
\* Variant of CopyClicked: the text of the wrong line edit is copied.
CopyClicked_WrongLineEdit ==
  /\ Idle
  /\ IF Len(password_display) > 0
       THEN clipboard' = special_chars_edit /\ message' = "information"
       ELSE message' = "none" /\ UNCHANGED clipboard
  /\ events' = events + 1
  /\ UNCHANGED << gen, app, controls, password_display >>

\* Lines 255-260.
CopyClicked ==
  /\ Idle
  /\ IF Len(password_display) > 0
       THEN clipboard' = password_display /\ message' = "information"
       ELSE message' = "none" /\ UNCHANGED clipboard
  /\ events' = events + 1
  /\ UNCHANGED << gen, app, controls, password_display >>

(* --------------------------- specifications --------------------------- *)
\* The widgets as the constructor leaves them (lines 143-153, 172-182, 200).
InitControls ==
  /\ length_slider = SliderClamp(LengthDefault)
  /\ length_spinbox = SpinClamp(LengthDefault)
  /\ use_lowercase = TRUE
  /\ use_uppercase = TRUE
  /\ use_digits = TRUE
  /\ use_special = TRUE
  /\ special_chars_edit = default_text
  /\ password_display = <<>>
  /\ clipboard = <<>>
  /\ message = "none"
  /\ events = 0

InitGen ==
  /\ pc = "idle"
  /\ args = NoArgs
  /\ chars = <<>>
  /\ password = <<>>
  /\ has_requirements = FALSE

\* generate_password called directly with any configuration.
Init == InitGen /\ InitControls /\ app = "direct"

Next == Call \/ BuildPool \/ FirstDraw \/ Redraw \/ Return

Spec == Init /\ [][Next]_vars

\* The application: the window is being constructed, line 121 is next.
ShellInit == InitGen /\ InitControls /\ app = "constructing"

ShellNext ==
  \/ InitialGenerate \/ GenerateClicked \/ generate_password_end
  \/ SliderMoved \/ SpinboxEdited \/ CheckBoxToggled \/ SpecialCharsEdited
  \/ CopyClicked

ShellSpec == ShellInit /\ [][ShellNext]_vars

\* The direct calls with the fairness of a fair random source: a step that is
\* possible is taken, and while the loop is running a draw that passes the
\* check is eventually made.
FairSpec ==
  /\ Init /\ [][Next]_vars
  /\ WF_vars(BuildPool) /\ WF_vars(FirstDraw) /\ WF_vars(Return)
  /\ WF_vars(Redraw /\ has_requirements')

(* ------------------------- vocabulary of the claims -------------------- *)
Flag(b) == IF b THEN 1 ELSE 0

NumSelected(a) ==
  Flag(a.use_lowercase) + Flag(a.use_uppercase) + Flag(a.use_digits)
    + Flag(a.use_special)

AnyFlag(a) == a.use_lowercase \/ a.use_uppercase \/ a.use_digits \/ a.use_special

Valid(a) == a.length >= 1 /\ AnyFlag(a)

Chars(s) == { s[i] : i \in 1..Len(s) }

\* The special class of a configuration: the custom string when one is
\* supplied (not None, not empty), else the built-in set.
SpecialClass(a) ==
  IF ~a.custom_special.none /\ a.custom_special.text # <<>>
    THEN Chars(a.custom_special.text) ELSE Chars(special_chars)

\* The union of the ranges of the selected classes.
SelectedUnion(a) ==
  (IF a.use_lowercase THEN Chars(lowercase_chars) ELSE {})
  \cup (IF a.use_uppercase THEN Chars(uppercase_chars) ELSE {})
  \cup (IF a.use_digits THEN Chars(digit_chars) ELSE {})
  \cup (IF a.use_special THEN SpecialClass(a) ELSE {})

Drawn == pc \in {"while", "returned"}

(* ------------------------------- claims ------------------------------- *)
\* C1: for a valid configuration, the string held after the first draw and
\* after every redraw, and so the string returned, has exactly `length`
\* characters.
C1_ExactLength == (Drawn /\ Valid(args)) => Len(password) = args.length

C1_Witness ==
  /\ pc = "returned" /\ Valid(args) /\ args.length = MaxLen
  /\ NumSelected(args) = 2 /\ Len(password) = MaxLen

\* C2: for a valid configuration, every character of the drawn (and of the
\* returned) string belongs to the union of the selected class ranges.
C2_InPool ==
  (Drawn /\ Valid(args)) => \A i \in 1..Len(password) : password[i] \in SelectedUnion(args)

C2_Witness ==
  /\ pc = "returned" /\ args.length = MaxLen
  /\ args.use_lowercase /\ args.use_special /\ ~args.use_uppercase /\ ~args.use_digits
  /\ Truthy(args.custom_special)
  /\ \E i \in 1..Len(password) : password[i] \in SpecialClass(args)

\* C3: the returned string contains at least one character of every class
\* whose flag is true; a draw that misses a selected class is not returned.
C3_EveryClassPresent ==
  pc = "returned" =>
    /\ args.use_lowercase => Chars(password) \cap Chars(lowercase_chars) # {}
    /\ args.use_uppercase => Chars(password) \cap Chars(uppercase_chars) # {}
    /\ args.use_digits => Chars(password) \cap Chars(digit_chars) # {}
    /\ args.use_special => Chars(password) \cap SpecialClass(args) # {}

C3_Witness ==
  /\ pc = "returned" /\ args.use_digits /\ args.use_special /\ NumSelected(args) = 2
  /\ Chars(password) \cap Chars(digit_chars) # {}
  /\ Chars(password) \cap SpecialClass(args) # {}

\* C4: with all four flags false the call raises: it never reaches a draw,
\* the retry loop or a return, and no password is produced.
C4_EmptyPoolRaises ==
  (pc # "idle" /\ ~AnyFlag(args)) =>
    /\ pc \in {"build", "raised"}
    /\ password = <<>>
    /\ ~has_requirements

C4_Witness ==
  /\ pc = "raised" /\ ~AnyFlag(args) /\ args.length = MaxLen
  /\ Truthy(args.custom_special)

\* C5: with the special flag set and a custom string supplied, the pool and
\* the presence check use the custom string: the pool holds its characters
\* and no built-in special character outside it (unless another selected
\* class has it), and the returned string holds one of its characters; with
\* the custom string empty or None both use the built-in set.
C5_CustomSpecial ==
  (pc \in {"draw", "while", "returned"} /\ args.use_special) =>
    IF ~args.custom_special.none /\ args.custom_special.text # <<>>
      THEN /\ Chars(args.custom_special.text) \subseteq Chars(chars)
           /\ \A c \in Chars(special_chars) \ Chars(args.custom_special.text) :
                (c \in Chars(chars) \/ c \in Chars(password))
                  => c \in SelectedUnion([args EXCEPT !.use_special = FALSE])
           /\ pc = "returned" =>
                Chars(password) \cap Chars(args.custom_special.text) # {}
      ELSE /\ Chars(special_chars) \subseteq Chars(chars)
           /\ pc = "returned" => Chars(password) \cap Chars(special_chars) # {}

C5_Witness ==
  /\ pc = "returned" /\ args.use_special /\ args.use_lowercase
  /\ args.custom_special = Str(<< "!" >>)
  /\ "!" \in Chars(password)
  /\ "@" \in Chars(special_chars)

\* C6: under a fair random source, a call with a valid configuration whose
\* length is at least the number of selected classes returns; and with
\* exactly one class selected the first draw passes the check, so the retry
\* loop body is never run.
C6_Terminates ==
  /\ (pc = "build" /\ Valid(args) /\ args.length >= NumSelected(args))
       ~> pc = "returned"
  /\ [](pc = "while" /\ Valid(args) /\ NumSelected(args) = 1 => has_requirements)
  /\ [][(Redraw /\ Valid(args)) => NumSelected(args) # 1]_vars

C6_Witness ==
  /\ pc = "returned" /\ args.use_digits /\ NumSelected(args) = 1
  /\ args.length = MaxLen

\* C7 as stated: whenever the length is smaller than the number of flags
\* set, no draw passes the check and the call neither returns nor raises.
C7_Original ==
  (pc # "idle" /\ pc # "build" /\ args.length < NumSelected(args)) =>
    /\ ~has_requirements
    /\ pc \in {"draw", "while"}

\* The special class in use shares no character with another selected class.
SpecialDisjoint(a) ==
  a.use_special =>
    SpecialClass(a) \cap SelectedUnion([a EXCEPT !.use_special = FALSE]) = {}

\* C7 (amended): when the length is smaller than the number of flags set
\* and the special class in use shares no character with another selected
\* class, no draw passes the check and the call neither returns nor raises.
C7_NeverTerminates ==
  (pc # "idle" /\ pc # "build" /\ args.length < NumSelected(args)
     /\ SpecialDisjoint(args)) =>
    /\ ~has_requirements
    /\ pc \in {"draw", "while"}

C7_Witness ==
  /\ pc = "while" /\ args.length = 1 /\ NumSelected(args) = 3
  /\ Len(password) = 1 /\ ~has_requirements

NoBoxChecked == ~(use_lowercase \/ use_uppercase \/ use_digits \/ use_special)

\* C8: a Generate that ends in an error (no box checked, or the generator
\* raised) shows a message and leaves the display as it was; the display
\* changes only to a password the generator returned.
C8_ErrorKeepsDisplay ==
  [][ /\ (GenerateClicked /\ NoBoxChecked) =>
           (message' = "warning" /\ password_display' = password_display)
      /\ (generate_password_end /\ Len(BuildChars(args)) = 0) =>
           (message' = "critical" /\ password_display' = password_display)
      /\ message' \in {"warning", "critical"} => password_display' = password_display
      /\ password_display' # password_display =>
           /\ pc = "build"
           /\ password_display' \in Draws(BuildChars(args), args.length)
           /\ password_meets_requirements(password_display', args) ]_vars

C8_Witness ==
  /\ message = "warning" /\ NoBoxChecked /\ pc = "idle"
  /\ Len(password_display) >= LengthMinimum

\* C9: Copy with a non-empty display sets the clipboard to the password
\* displayed at that moment, Copy with an empty display leaves the clipboard
\* as it was, Copy changes neither the display nor the controls, and nothing
\* but Copy writes the clipboard.
C9_CopyDisplayed ==
  [][ /\ CopyClicked =>
           /\ (password_display # <<>> => clipboard' = password_display)
           /\ (password_display = <<>> => clipboard' = clipboard)
           /\ password_display' = password_display
           /\ controls' = controls
      /\ clipboard' # clipboard => (message' = "information" /\ events' = events + 1) ]_vars

C9_Witness ==
  /\ message = "information" /\ clipboard = password_display
  /\ clipboard # <<>> /\ events >= 3
  /\ ~use_uppercase /\ \A i \in 1..Len(clipboard) : clipboard[i] \notin Chars(uppercase_chars)

\* C10: the slider and the spin box hold the same value within 4..64; the
\* generator runs only with at least one flag true, with that length, and
\* with custom_special None when the special flag is off; so its pool is not
\* empty, the length is at least the number of selected classes, a string
\* passing the presence check exists, and no error dialog of the generator
\* is shown.
C10_ShellCalls ==
  /\ length_slider = length_spinbox
  /\ length_spinbox \in LengthMinimum..LengthMaximum
  /\ message # "critical"
  /\ pc \in {"idle", "build"}
  /\ pc = "build" =>
       /\ AnyFlag(args)
       /\ args = [length |-> length_spinbox,
                  use_lowercase |-> use_lowercase, use_uppercase |-> use_uppercase,
                  use_digits |-> use_digits, use_special |-> use_special,
                  custom_special |-> args.custom_special]
       /\ (~args.use_special => args.custom_special = None)
       /\ (args.use_special => args.custom_special = Str(special_chars_edit))
       /\ BuildChars(args) # <<>>
       /\ args.length >= NumSelected(args)
       /\ \E pw \in Draws(BuildChars(args), args.length) :
            password_meets_requirements(pw, args)

C10_Witness ==
  /\ pc = "build" /\ app = "running"
  /\ length_spinbox = LengthMinimum /\ length_slider = LengthMinimum
  /\ NumSelected(args) = 1 /\ args.use_digits
====
